---- MODULE Spec2Model ----
(***************************************************************************)
(* Model of @trust-escrow/storage-lib: the SHA-256 helpers, the two HTTP   *)
(* storage adapters (ArweaveStore, IpfsStore), the two exported            *)
(* placeholder stores, the PostgreSQL evidence repository and the dual-pin *)
(* orchestration (StorageLib.dualPin).                                     *)
(*                                                                         *)
(* Values.  A byte buffer is a sequence of bytes.  A text is a sequence of *)
(* code points, turned into bytes by UTF-8.  A hex digest is a sequence:   *)
(* SHA-256 is modelled as an ideal (collision-free) hash, the digest of a  *)
(* buffer b being <<DigestTag>> \o b; the empty string is << >>.  An       *)
(* undefined value (a missing option) is Undefined.  A response body that  *)
(* only feeds an error message is modelled by its length.                  *)
(***************************************************************************)
EXTENDS Integers, Sequences, FiniteSets, TLC

VARIABLES arweaveNet, ipfsNet, withPostgres, tableExists, rows, now, last, dp

vars == <<arweaveNet, ipfsNet, withPostgres, tableExists, rows, now, last, dp>>

----------------------------------------------------------------------------
(* Bounds of the model *)

\* uploads the primary network accepts before it only answers with errors
MaxUploads == 2

\* longest text (in characters) and longest buffer (in bytes) that is hashed
MaxLen == 2

\* rows the evidence table holds at most
MaxRows == 3

\* last tick of the database clock
MaxTime == 1

----------------------------------------------------------------------------
(* Payloads, digests *)

Undefined == <<"undefined">>
EmptyString == << >>

\* 'A' and 'e-acute' as code points
CodePoints == {65, 233}

\* UTF-8 encoding of one code point (one or two bytes are enough here)
Utf8Char(c) ==
  IF c < 128 THEN <<c>> ELSE <<192 + (c \div 64), 128 + (c % 64)>>

RECURSIVE Utf8(_)
Utf8(s) == IF s = << >> THEN << >> ELSE Utf8Char(Head(s)) \o Utf8(Tail(s))

Text(s) == [kind |-> "string", val |-> s]
Bytes(b) == [kind |-> "bytes", val |-> b]

\* the payloads callers pass: a text, the bytes of that text, other bytes
Payloads == {Text(<<233>>), Bytes(<<195, 169>>), Bytes(<<65>>)}

\* a normalisation that keeps one byte per character (latin1)
toBufferLatin1(data) ==
  IF data.kind = "string"
  THEN [i \in 1..Len(data.val) |-> data.val[i] % 256]
  ELSE data.val

toBuffer(data) == IF data.kind = "string" THEN Utf8(data.val) ELSE data.val

DigestTag == "sha256"

sha256Hex(data) == <<DigestTag>> \o toBuffer(data)

\* a buffer no caller uploads: what a corrupted or tampered read returns
TamperedBuf == <<0>>

Bufs == {toBuffer(p) : p \in Payloads}

\* the values a caller may pass as integrityHash: none, the empty string,
\* the digest of the payload or the digest of another payload
IntegrityHashes == {Undefined, EmptyString} \cup {sha256Hex(p) : p \in Payloads}

\* JavaScript truthiness of an optional string
Truthy(s) == s # Undefined /\ s # EmptyString

----------------------------------------------------------------------------
(* HTTP *)

ResOk(status) == status >= 200 /\ status <= 299

ClipMax == 240

\* clip(s): the length kept of a body of length len, and whether an ellipsis follows
clip(len) ==
  IF len > ClipMax THEN [len |-> ClipMax, ellipsis |-> TRUE]
  ELSE [len |-> len, ellipsis |-> FALSE]

Whitespace == {" ", "\n"}

RECURSIVE TrimLeft(_)
TrimLeft(s) ==
  IF s # << >> /\ Head(s) \in Whitespace THEN TrimLeft(Tail(s)) ELSE s

RECURSIVE TrimRight(_)
TrimRight(s) ==
  IF s # << >> /\ s[Len(s)] \in Whitespace
  THEN TrimRight(SubSeq(s, 1, Len(s) - 1)) ELSE s

Trim(s) == TrimRight(TrimLeft(s))

\* results of a call: a value, or an error thrown
Return(v, reqs) ==
  [status |-> "ok", err |-> "none", val |-> v, httpStatus |-> 0,
   body |-> clip(0), reqs |-> reqs]

Throw(kind, reqs) ==
  [status |-> "throw", err |-> kind, val |-> Undefined, httpStatus |-> 0,
   body |-> clip(0), reqs |-> reqs]

ThrowHttp(httpStatus, body, reqs) ==
  [status |-> "throw", err |-> "transport", val |-> Undefined,
   httpStatus |-> httpStatus, body |-> body, reqs |-> reqs]

Req(method, backend) == [method |-> method, backend |-> backend]

Step(what) == [method |-> what, backend |-> "local"]

----------------------------------------------------------------------------
(* The remote networks (environment).  The primary network (Arweave         *)
(* uploader) hands out a fresh transaction id per accepted upload; the      *)
(* mirror network (IPFS) addresses content by a CID derived from the bytes. *)

TxId(n) == <<"tx", ToString(n)>>

Cid(buf) == <<"Qm">> \o buf

ArweaveGateway == "https://arweave.net/"
IpfsGateway == "https://ipfs.io/ipfs/"

\* lengths of the body of an error response
BodyLens == {0, ClipMax, ClipMax + 1}

NoHeaders == [contentType |-> Undefined, contentLength |-> Undefined]

\* a response as the adapters read it: net = "down" is a rejected fetch
Response(net, status, text, readable, errLen, bytes, headers) ==
  [net |-> net, status |-> status, text |-> text, readable |-> readable,
   errLen |-> errLen, bytes |-> bytes, headers |-> headers]

Down == Response("down", 0, << >>, FALSE, 0, << >>, NoHeaders)

\* error answers: the body cannot be read, or has one of the lengths
ErrorResponses ==
  {Response("http", 404, << >>, FALSE, 0, << >>, NoHeaders)}
  \cup {Response("http", 500, << >>, TRUE, n, << >>, NoHeaders) : n \in BodyLens}

OkText(text) == Response("http", 200, text, TRUE, 0, << >>, NoHeaders)

\* answers of the Arweave uploader to a POST, the network holding net
ArweavePostResponses(net) ==
  {Down} \cup ErrorResponses \cup
  (IF Len(net) < MaxUploads
   THEN LET id == TxId(Len(net) + 1)
        IN {OkText(<<" ">> \o id \o <<"\n">>), OkText(<<" ">>)}
   ELSE {})

\* the lines of an IPFS add response
JsonLine(Hash, Cid_, cid) == [t |-> "json", Hash |-> Hash, Cid |-> Cid_, cid |-> cid]
BlankLine == [t |-> "blank", Hash |-> << >>, Cid |-> << >>, cid |-> << >>]
GarbageLine == [t |-> "garbage", Hash |-> << >>, Cid |-> << >>, cid |-> << >>]

\* answers of the IPFS API to an add of buf
IpfsPostResponses(buf) ==
  {Down} \cup ErrorResponses \cup
  LET c == Cid(buf)
  IN {OkText(<<JsonLine(c, << >>, << >>)>>),
      OkText(<<JsonLine(<< >>, << >>, << >>), JsonLine(<< >>, c, << >>), BlankLine>>),
      OkText(<<BlankLine>>),
      OkText(<<JsonLine(<< >>, << >>, << >>)>>),
      OkText(<<GarbageLine>>)}

\* what the networks hold under an identifier
ArweaveHolds(net, id) == \E n \in 1..Len(net) : TxId(n) = id
ArweaveObject(net, id) == net[CHOOSE n \in 1..Len(net) : TxId(n) = id]
IpfsHolds(net, id) == \E b \in net : Cid(b) = id
IpfsObject(net, id) == CHOOSE b \in net : Cid(b) = id

\* answers of a public gateway to GET: the object, or bytes changed on the way
GetResponses(holds, object) ==
  {Down} \cup ErrorResponses \cup
  (IF holds
   THEN {Response("http", 200, << >>, TRUE, 0, b, NoHeaders) : b \in {object, TamperedBuf}}
   ELSE {})

\* answers of a public gateway to HEAD
HeadResponses(holds, object) ==
  {Down} \cup ErrorResponses \cup
  (IF holds
   THEN {Response("http", 200, << >>, TRUE, 0, << >>,
                  [contentType |-> ct, contentLength |-> cl]) :
           ct \in {Undefined, <<"text/plain">>},
           cl \in {Undefined, <<ToString(Len(object))>>}}
   ELSE {})

----------------------------------------------------------------------------
(* The HTTP adapters (src/stores) *)

StoredRef(cid, backend, gateway) ==
  [cid |-> cid, backend |-> backend, url |-> <<gateway>> \o cid]

\* safeText(res): the body read for an error message; the length 0 stands
\* for an empty body and for one that could not be read (undefined)
safeText(res) == IF res.readable THEN res.errLen ELSE 0

\* a put that does not look at the status of the response
ArweavePutAnyStatus(content, opts, res) ==
  LET sent == <<Req("POST", "arweave")>>
  IN IF res.net = "down" THEN Throw("network", sent)
     ELSE Return(StoredRef(<<"tx", "0">>, "arweave", ArweaveGateway),
                 sent \o <<Step("sha256")>>)

\* a put that rejects the expected digest when it is the digest of the data
ArweavePutInverted(content, opts, res) ==
  LET sent == <<Req("POST", "arweave")>>
  IN IF res.net = "down" THEN Throw("network", sent)
     ELSE IF ~ResOk(res.status)
     THEN ThrowHttp(res.status, clip(safeText(res)), sent)
     ELSE LET txId == Trim(res.text)
          IN IF txId = << >> THEN Throw("empty", sent)
             ELSE LET computed == sha256Hex(content)
                      steps == sent \o <<Step("sha256")>>
                  IN IF Truthy(opts.integrityHash) /\ opts.integrityHash = computed
                     THEN Throw("integrity", steps)
                     ELSE Return(StoredRef(txId, "arweave", ArweaveGateway), steps)

\* a put that compares the digests before it uploads
ArweavePutCheckFirst(content, opts, res) ==
  LET computed == sha256Hex(content)
      sent == <<Step("sha256"), Req("POST", "arweave")>>
  IN IF Truthy(opts.integrityHash) /\ opts.integrityHash # computed
     THEN Throw("integrity", <<Step("sha256")>>)
     ELSE IF res.net = "down" THEN Throw("network", sent)
     ELSE IF ~ResOk(res.status)
     THEN ThrowHttp(res.status, clip(safeText(res)), sent)
     ELSE LET txId == Trim(res.text)
          IN IF txId = << >> THEN Throw("empty", sent)
             ELSE Return(StoredRef(txId, "arweave", ArweaveGateway), sent)

\* ArweaveStore.put, the uploader answering res
ArweavePut(content, opts, res) ==
  LET data == toBuffer(content)
      sent == <<Req("POST", "arweave")>>
  IN IF res.net = "down" THEN Throw("network", sent)
     ELSE IF ~ResOk(res.status)
     THEN ThrowHttp(res.status, clip(safeText(res)), sent)
     ELSE LET txId == Trim(res.text)
          IN IF txId = << >> THEN Throw("empty", sent)
             ELSE LET computed == sha256Hex(content)
                      steps == sent \o <<Step("sha256")>>
                  IN IF Truthy(opts.integrityHash) /\ opts.integrityHash # computed
                     THEN Throw("integrity", steps)
                     ELSE Return(StoredRef(txId, "arweave", ArweaveGateway), steps)

\* text.trim().split('\n').filter(Boolean): the lines that are not empty
NonEmptyLines(lines) == SelectSeq(lines, LAMBDA l : l.t # "blank")

\* parsed.Hash || parsed.Cid || parsed.cid
CidOf(parsed) ==
  IF parsed.Hash # << >> THEN parsed.Hash
  ELSE IF parsed.Cid # << >> THEN parsed.Cid
  ELSE parsed.cid

\* a put that does not look at the status of the response
IpfsPutAnyStatus(content, opts, res) ==
  LET sent == <<Req("POST", "ipfs")>>
  IN IF res.net = "down" THEN Throw("network", sent)
     ELSE Return(StoredRef(Cid(toBuffer(content)), "ipfs", IpfsGateway),
                 sent \o <<Step("sha256")>>)

\* a put that hashes a text without encoding it as UTF-8
IpfsPutHashesRaw(content, opts, res) ==
  LET sent == <<Req("POST", "ipfs")>>
  IN IF res.net = "down" THEN Throw("network", sent)
     ELSE IF ~ResOk(res.status)
     THEN ThrowHttp(res.status, [len |-> safeText(res), ellipsis |-> FALSE], sent)
     ELSE LET lines == NonEmptyLines(res.text)
          IN IF lines = << >> THEN Throw("empty", sent)
             ELSE LET lastLine == lines[Len(lines)]
                  IN IF lastLine.t = "garbage" THEN Throw("parse", sent)
                     ELSE IF CidOf(lastLine) = << >> THEN Throw("missing cid", sent)
                     ELSE LET computed == <<DigestTag>> \o content.val
                              steps == sent \o <<Step("sha256")>>
                          IN IF Truthy(opts.integrityHash)
                                /\ opts.integrityHash # computed
                             THEN Throw("integrity", steps)
                             ELSE Return(StoredRef(CidOf(lastLine), "ipfs", IpfsGateway),
                                         steps)

\* IpfsStore.put, the IPFS API answering res; the body is kept in full
IpfsPut(content, opts, res) ==
  LET data == toBuffer(content)
      sent == <<Req("POST", "ipfs")>>
  IN IF res.net = "down" THEN Throw("network", sent)
     ELSE IF ~ResOk(res.status)
     THEN ThrowHttp(res.status, [len |-> safeText(res), ellipsis |-> FALSE], sent)
     ELSE LET lines == NonEmptyLines(res.text)
          IN IF lines = << >> THEN Throw("empty", sent)
             ELSE LET lastLine == lines[Len(lines)]
                  IN IF lastLine.t = "garbage" THEN Throw("parse", sent)
                     ELSE IF CidOf(lastLine) = << >> THEN Throw("missing cid", sent)
                     ELSE LET computed == sha256Hex(content)
                              steps == sent \o <<Step("sha256")>>
                          IN IF Truthy(opts.integrityHash)
                                /\ opts.integrityHash # computed
                             THEN Throw("integrity", steps)
                             ELSE Return(StoredRef(CidOf(lastLine), "ipfs", IpfsGateway),
                                         steps)

\* ArweaveStore.get: clipped body in the error
ArweaveGet(cid, res) ==
  LET sent == <<Req("GET", "arweave")>>
  IN IF res.net = "down" THEN Throw("network", sent)
     ELSE IF ~ResOk(res.status)
     THEN ThrowHttp(res.status, clip(safeText(res)), sent)
     ELSE Return(res.bytes, sent)

\* IpfsStore.get: whole body in the error
IpfsGet(cid, res) ==
  LET sent == <<Req("GET", "ipfs")>>
  IN IF res.net = "down" THEN Throw("network", sent)
     ELSE IF ~ResOk(res.status)
     THEN ThrowHttp(res.status, [len |-> safeText(res), ellipsis |-> FALSE], sent)
     ELSE Return(res.bytes, sent)

Digits == <<"0", "1", "2", "3", "4", "5", "6", "7", "8", "9">>
DigitVal(c) == (CHOOSE i \in 1..10 : Digits[i] = c) - 1

\* Number(s) of a string of decimal digits
RECURSIVE Number(_)
Number(s) ==
  IF s = << >> THEN 0
  ELSE 10 * Number(SubSeq(s, 1, Len(s) - 1)) + DigitVal(s[Len(s)])

\* a head that treats a response that is not ok as put and get do
HeadThrowing(backend, cid, res) ==
  LET sent == <<Req("HEAD", backend)>>
  IN IF res.net = "down" THEN Throw("network", sent)
     ELSE IF ~ResOk(res.status) THEN ThrowHttp(res.status, clip(safeText(res)), sent)
     ELSE Return([contentType |-> Undefined, size |-> Undefined], sent)

\* head of either adapter: null on a response that is not ok
Head_(backend, cid, res) ==
  LET sent == <<Req("HEAD", backend)>>
  IN IF res.net = "down" THEN Throw("network", sent)
     ELSE IF ~ResOk(res.status) THEN Return("null", sent)
     ELSE Return([contentType |-> IF Truthy(res.headers.contentType)
                                  THEN res.headers.contentType ELSE Undefined,
                  size |-> IF Truthy(res.headers.contentLength)
                           THEN <<Number(res.headers.contentLength)>> ELSE Undefined],
                 sent)

ArweaveHead(cid, res) == Head_("arweave", cid, res)
IpfsHead(cid, res) == Head_("ipfs", cid, res)

\* a verify without the catch: an error of get propagates
VerifyNoCatch(got, expectedSha256) ==
  IF got.status = "throw" THEN got
  ELSE Return(sha256Hex(Bytes(got.val)) = expectedSha256,
              got.reqs \o <<Step("sha256")>>)

\* verify of either adapter, got being the result of its get(cid)
Verify_(got, expectedSha256) ==
  IF got.status = "throw" THEN Return(FALSE, got.reqs)
  ELSE Return(sha256Hex(Bytes(got.val)) = expectedSha256,
              got.reqs \o <<Step("sha256")>>)

ArweaveVerify(cid, expectedSha256, res) == Verify_(ArweaveGet(cid, res), expectedSha256)
IpfsVerify(cid, expectedSha256, res) == Verify_(IpfsGet(cid, res), expectedSha256)

----------------------------------------------------------------------------
(* The exported placeholder stores (src/arweaveStore.ts, src/ipfsStore.ts) *)

\* sha256 of src/hash.ts
sha256(data) == <<DigestTag>> \o toBuffer(data)

\* a put whose identifier covers the options as well as the content
PlaceholderPutTagged(data, opts) ==
  Return(sha256(data) \o opts.integrityHash, << >>)

PlaceholderPut(data, opts) == Return(sha256(data), << >>)

PlaceholderGet(id) == Throw("not implemented", << >>)

PlaceholderVerify(id) == Return(FALSE, << >>)

----------------------------------------------------------------------------
(* The evidence repository (src/postgres/metadata.ts).  The table is the   *)
(* sequence of its rows in insertion order; the serial id of a row is its  *)
(* position.                                                               *)

Parties == {<<"buyer">>, <<"seller">>, <<"system">>}

EvidenceRecord(dealId, party, sha, primaryCid, mirrorCid, contentType, createdAt) ==
  [dealId |-> dealId, party |-> party, sha256 |-> sha, primaryCid |-> primaryCid,
   mirrorCid |-> mirrorCid, contentType |-> contentType, createdAt |-> createdAt]

\* rec.contentType ?? null
OrNull(v) == IF v = Undefined THEN <<"null">> ELSE v

\* a Date the caller supplies, t in clock ticks
Date(t) == <<"date", t>>

\* coalesce($7, now())
CreatedAt(rec, clock) ==
  IF rec.createdAt = Undefined THEN clock ELSE rec.createdAt[2]

\* an add into a table without the check constraint on party
AddUnchecked(table, exists, rec, clock) ==
  IF ~exists THEN [ok |-> FALSE, err |-> "no table", rows |-> table]
  ELSE [ok |-> TRUE, err |-> "none",
        rows |-> Append(table,
                   [id |-> Len(table) + 1, deal_id |-> rec.dealId, party |-> rec.party,
                    sha256 |-> rec.sha256, primary_cid |-> rec.primaryCid,
                    mirror_cid |-> rec.mirrorCid,
                    content_type |-> OrNull(rec.contentType),
                    created_at |-> CreatedAt(rec, clock)])]

\* an add that inserts the row before the role is validated
AddThenValidate(table, exists, rec, clock) ==
  IF ~exists THEN [ok |-> FALSE, err |-> "no table", rows |-> table]
  ELSE [ok |-> rec.party \in Parties,
        err |-> IF rec.party \in Parties THEN "none" ELSE "validation",
        rows |-> Append(table,
                   [id |-> Len(table) + 1, deal_id |-> rec.dealId, party |-> rec.party,
                    sha256 |-> rec.sha256, primary_cid |-> rec.primaryCid,
                    mirror_cid |-> rec.mirrorCid,
                    content_type |-> OrNull(rec.contentType),
                    created_at |-> CreatedAt(rec, clock)])]

\* EvidenceRepo.add: one insert statement, under the constraints of the
\* table migrate() creates; a statement that fails inserts nothing
RepoAdd(table, exists, rec, clock) ==
  IF ~exists THEN [ok |-> FALSE, err |-> "no table", rows |-> table]
  ELSE IF rec.party \notin Parties
  THEN [ok |-> FALSE, err |-> "validation", rows |-> table]
  ELSE [ok |-> TRUE, err |-> "none",
        rows |-> Append(table,
                   [id |-> Len(table) + 1, deal_id |-> rec.dealId, party |-> rec.party,
                    sha256 |-> rec.sha256, primary_cid |-> rec.primaryCid,
                    mirror_cid |-> rec.mirrorCid,
                    content_type |-> OrNull(rec.contentType),
                    created_at |-> CreatedAt(rec, clock)])]

----------------------------------------------------------------------------
(* StorageLib.dualPin.  One call at a time; dp is the call in progress or  *)
(* the one that completed last.                                            *)

NoContent == Bytes(<< >>)

DealIds == {Undefined, <<"DEAL-001">>}
\* the roles callers pass: none, one of the closed set, one outside it
Roles == {Undefined, <<"buyer">>, <<"intruder">>}

\* the payloads given to dualPin: a text and bytes
DualPinPayloads == {Text(<<233>>), Bytes(<<65>>)}

DualPinOptions ==
  [integrityHash : IntegrityHashes, dealId : DealIds, party : Roles,
   contentType : {Undefined}]

NoResult == [primary |-> Undefined, mirror |-> Undefined,
             integrity |-> [computedSha256 |-> Undefined, matches |-> TRUE]]

NoOut == Return(Undefined, << >>)

DualPinCall(pc, content, opts, sha, integrityHash, primaryRes, primary, mirrorRes, mirror, result, error, log) ==
  [pc |-> pc, content |-> content, opts |-> opts, sha256 |-> sha,
   integrityHash |-> integrityHash, primaryRes |-> primaryRes, primary |-> primary,
   mirrorRes |-> mirrorRes, mirror |-> mirror, result |-> result, error |-> error,
   log |-> log]

Idle ==
  DualPinCall("idle", NoContent, [integrityHash |-> Undefined, dealId |-> Undefined,
                                  party |-> Undefined, contentType |-> Undefined],
              Undefined, Undefined, Down, NoOut, Down, NoOut, NoResult, "none", << >>)

\* step 2: the expected digest the adapters are given
ResolveIntegrityHash(opts, sha) ==
  IF opts.integrityHash # Undefined THEN opts.integrityHash ELSE sha

\* step 4: the Result
AssembleResult(primary, mirror, sha, integrityHash) ==
  [primary |-> primary, mirror |-> mirror,
   integrity |-> [computedSha256 |-> sha, matches |-> (integrityHash = sha)]]

\* step 5: whether a row is written
AuditWanted(enabled, opts) ==
  enabled /\ opts.dealId # Undefined /\ opts.party # Undefined

----------------------------------------------------------------------------
(* State of the adapter calls.  last is the call that completed last: its  *)
(* arguments, the answer the remote gave, its result, and (after) the      *)
(* successful put that came right before it on the same store (for a put   *)
(* of a placeholder store: some earlier successful put on that store).     *)

PutOptions == [integrityHash : IntegrityHashes]

AdapterOptions(integrityHash) == [integrityHash |-> integrityHash]

NoOpts == [integrityHash |-> Undefined]
NoPut == [cid |-> Undefined, content |-> NoContent]

Call(op, store, content, opts, cid, expected, res, out, after) ==
  [op |-> op, store |-> store, content |-> content, opts |-> opts, cid |-> cid,
   expected |-> expected, res |-> res, out |-> out, after |-> after]

NoCall ==
  Call("none", "none", NoContent, NoOpts, Undefined, Undefined, Down,
       Return(Undefined, << >>), NoPut)


\* the put that has just completed on store, when it returned an identifier
JustPut(store) ==
  IF last.op = "put" /\ last.store = store /\ last.out.status = "ok"
  THEN [cid |-> IF store \in {"ArweaveStore", "IpfsStore"}
                THEN last.out.val.cid ELSE last.out.val,
        content |-> last.content]
  ELSE NoPut

ArweaveIds == {TxId(n) : n \in 1..MaxUploads}
IpfsIds == {Cid(b) : b \in Bufs}
ExpectedHashes == IntegrityHashes \ {Undefined}

Init ==
  /\ arweaveNet = << >>
  /\ ipfsNet = {}
  /\ withPostgres = FALSE
  /\ tableExists = FALSE
  /\ rows = << >>
  /\ now = 0
  /\ last = NoCall
  /\ dp = Idle

Pending ==
  [status |-> "pending", err |-> "none", val |-> Undefined, httpStatus |-> 0,
   body |-> clip(0), reqs |-> << >>]

\* no adapter call is waiting for its remote
Quiet == last.out.status # "pending"

\* a call of op on store waits for the answer of its remote
Awaiting(op, store) ==
  last.op = op /\ last.store = store /\ last.out.status = "pending"

Ids(store) == IF store = "ArweaveStore" THEN ArweaveIds ELSE IpfsIds

\* the calls: the request goes out, the caller is suspended
PutCall ==
  /\ Quiet
  /\ \E store \in {"ArweaveStore", "IpfsStore"}, content \in Payloads,
        opts \in PutOptions :
       last' = Call("put", store, content, opts, Undefined, Undefined, Down,
                    Pending, NoPut)
  /\ UNCHANGED <<arweaveNet, ipfsNet, withPostgres, tableExists, rows, now, dp>>

GetCall ==
  /\ Quiet
  /\ \E store \in {"ArweaveStore", "IpfsStore"} : \E cid \in Ids(store) :
       last' = Call("get", store, NoContent, NoOpts, cid, Undefined, Down,
                    Pending, NoPut)
  /\ UNCHANGED <<arweaveNet, ipfsNet, withPostgres, tableExists, rows, now, dp>>

HeadCall ==
  /\ Quiet
  /\ \E store \in {"ArweaveStore", "IpfsStore"} : \E cid \in Ids(store) :
       last' = Call("head", store, NoContent, NoOpts, cid, Undefined, Down,
                    Pending, NoPut)
  /\ UNCHANGED <<arweaveNet, ipfsNet, withPostgres, tableExists, rows, now, dp>>

VerifyCall ==
  /\ Quiet
  /\ \E store \in {"ArweaveStore", "IpfsStore"}, expected \in ExpectedHashes :
       \E cid \in Ids(store) :
         last' = Call("verify", store, NoContent, NoOpts, cid, expected, Down,
                      Pending, JustPut(store))
  /\ UNCHANGED <<arweaveNet, ipfsNet, withPostgres, tableExists, rows, now, dp>>

\* the remote answers and the call runs to its end
ArweaveStorePut ==
  /\ Awaiting("put", "ArweaveStore")
  /\ \E res \in ArweavePostResponses(arweaveNet) :
       /\ last' = [last EXCEPT !.res = res,
                               !.out = ArweavePut(last.content, last.opts, res)]
       /\ arweaveNet' = IF res.net = "http" /\ res.status = 200
                        THEN Append(arweaveNet, toBuffer(last.content))
                        ELSE arweaveNet
  /\ UNCHANGED <<ipfsNet, withPostgres, tableExists, rows, now, dp>>

IpfsStorePut ==
  /\ Awaiting("put", "IpfsStore")
  /\ \E res \in IpfsPostResponses(toBuffer(last.content)) :
       /\ last' = [last EXCEPT !.res = res,
                               !.out = IpfsPut(last.content, last.opts, res)]
       /\ ipfsNet' = IF res.net = "http" /\ res.status = 200
                     THEN ipfsNet \cup {toBuffer(last.content)} ELSE ipfsNet
  /\ UNCHANGED <<arweaveNet, withPostgres, tableExists, rows, now, dp>>

ArweaveGetResponses(cid) ==
  IF ArweaveHolds(arweaveNet, cid)
  THEN GetResponses(TRUE, ArweaveObject(arweaveNet, cid))
  ELSE GetResponses(FALSE, << >>)

IpfsGetResponses(cid) ==
  IF IpfsHolds(ipfsNet, cid)
  THEN GetResponses(TRUE, IpfsObject(ipfsNet, cid))
  ELSE GetResponses(FALSE, << >>)

ArweaveHeadResponses(cid) ==
  IF ArweaveHolds(arweaveNet, cid)
  THEN HeadResponses(TRUE, ArweaveObject(arweaveNet, cid))
  ELSE HeadResponses(FALSE, << >>)

IpfsHeadResponses(cid) ==
  IF IpfsHolds(ipfsNet, cid)
  THEN HeadResponses(TRUE, IpfsObject(ipfsNet, cid))
  ELSE HeadResponses(FALSE, << >>)

ArweaveStoreGet ==
  /\ Awaiting("get", "ArweaveStore")
  /\ \E res \in ArweaveGetResponses(last.cid) :
       last' = [last EXCEPT !.res = res, !.out = ArweaveGet(last.cid, res)]
  /\ UNCHANGED <<arweaveNet, ipfsNet, withPostgres, tableExists, rows, now, dp>>

IpfsStoreGet ==
  /\ Awaiting("get", "IpfsStore")
  /\ \E res \in IpfsGetResponses(last.cid) :
       last' = [last EXCEPT !.res = res, !.out = IpfsGet(last.cid, res)]
  /\ UNCHANGED <<arweaveNet, ipfsNet, withPostgres, tableExists, rows, now, dp>>

ArweaveStoreHead ==
  /\ Awaiting("head", "ArweaveStore")
  /\ \E res \in ArweaveHeadResponses(last.cid) :
       last' = [last EXCEPT !.res = res, !.out = ArweaveHead(last.cid, res)]
  /\ UNCHANGED <<arweaveNet, ipfsNet, withPostgres, tableExists, rows, now, dp>>

IpfsStoreHead ==
  /\ Awaiting("head", "IpfsStore")
  /\ \E res \in IpfsHeadResponses(last.cid) :
       last' = [last EXCEPT !.res = res, !.out = IpfsHead(last.cid, res)]
  /\ UNCHANGED <<arweaveNet, ipfsNet, withPostgres, tableExists, rows, now, dp>>

ArweaveStoreVerify ==
  /\ Awaiting("verify", "ArweaveStore")
  /\ \E res \in ArweaveGetResponses(last.cid) :
       last' = [last EXCEPT !.res = res,
                            !.out = ArweaveVerify(last.cid, last.expected, res)]
  /\ UNCHANGED <<arweaveNet, ipfsNet, withPostgres, tableExists, rows, now, dp>>

IpfsStoreVerify ==
  /\ Awaiting("verify", "IpfsStore")
  /\ \E res \in IpfsGetResponses(last.cid) :
       last' = [last EXCEPT !.res = res,
                            !.out = IpfsVerify(last.cid, last.expected, res)]
  /\ UNCHANGED <<arweaveNet, ipfsNet, withPostgres, tableExists, rows, now, dp>>

\* the exported instances arweaveStore and ipfsStore
Placeholders == {"arweaveStore", "ipfsStore"}
PlaceholderIds == {sha256(p) : p \in Payloads}

\* an earlier successful put on store that a put may be compared with: the
\* one right before it, or the one that put was itself compared with, so
\* that any number of puts may lie in between
EarlierPuts(store) ==
  {NoPut, JustPut(store)}
    \cup (IF last.op = "put" /\ last.store = store THEN {last.after} ELSE {})

PlaceholderStorePut ==
  /\ Quiet
  /\ \E store \in Placeholders, content \in Payloads, opts \in PutOptions :
       \E earlier \in EarlierPuts(store) :
         last' = Call("put", store, content, opts, Undefined, Undefined, Down,
                      PlaceholderPut(content, opts), earlier)
  /\ UNCHANGED <<arweaveNet, ipfsNet, withPostgres, tableExists, rows, now, dp>>

PlaceholderStoreGet ==
  /\ Quiet
  /\ \E store \in Placeholders, cid \in PlaceholderIds :
       last' = Call("get", store, NoContent, NoOpts, cid, Undefined, Down,
                    PlaceholderGet(cid), NoPut)
  /\ UNCHANGED <<arweaveNet, ipfsNet, withPostgres, tableExists, rows, now, dp>>

\* the placeholder verify takes the identifier alone; expected is what the
\* caller would compare against
PlaceholderStoreVerify ==
  /\ Quiet
  /\ \E store \in Placeholders, cid \in PlaceholderIds, expected \in ExpectedHashes :
       last' = Call("verify", store, NoContent, NoOpts, cid, expected, Down,
                    PlaceholderVerify(cid), JustPut(store))
  /\ UNCHANGED <<arweaveNet, ipfsNet, withPostgres, tableExists, rows, now, dp>>

Next ==
  \/ PutCall
  \/ GetCall
  \/ HeadCall
  \/ VerifyCall
  \/ ArweaveStorePut
  \/ IpfsStorePut
  \/ ArweaveStoreGet
  \/ IpfsStoreGet
  \/ ArweaveStoreHead
  \/ IpfsStoreHead
  \/ ArweaveStoreVerify
  \/ IpfsStoreVerify
  \/ PlaceholderStorePut
  \/ PlaceholderStoreGet
  \/ PlaceholderStoreVerify

Spec == Init /\ [][Next]_vars

----------------------------------------------------------------------------
(* The dual-pin call, step by step *)

InitDualPin ==
  /\ arweaveNet = << >>
  /\ ipfsNet = {}
  /\ withPostgres \in BOOLEAN
  /\ tableExists = FALSE
  /\ rows = << >>
  /\ now = 0
  /\ last = NoCall
  /\ dp = Idle

\* storage.init(): migrate() when the registry is enabled; idempotent
StorageLibInit ==
  /\ withPostgres
  /\ dp.pc \in {"idle", "done", "failed"}
  /\ tableExists' = TRUE
  /\ UNCHANGED <<arweaveNet, ipfsNet, withPostgres, rows, now, last, dp>>

\* steps 1 and 2: digest, expected digest
DualPinStart ==
  /\ dp.pc \in {"idle", "done", "failed"}
  /\ \E content \in DualPinPayloads, opts \in DualPinOptions :
       LET sha == sha256Hex(content)
       IN dp' = DualPinCall("digested", content, opts, sha,
                            ResolveIntegrityHash(opts, sha), Down, NoOut, Down, NoOut,
                            NoResult, "none", <<Step("sha256")>>)
  /\ UNCHANGED <<arweaveNet, ipfsNet, withPostgres, tableExists, rows, now, last>>

\* step 3, primary: ArweaveStore.put with the resolved options
DualPinPrimary ==
  /\ dp.pc = "digested"
  /\ \E res \in ArweavePostResponses(arweaveNet) :
       LET out == ArweavePut(dp.content, AdapterOptions(dp.integrityHash), res)
       IN /\ dp' = [dp EXCEPT !.pc = IF out.status = "ok" THEN "primaryStored"
                                      ELSE "failed",
                              !.primaryRes = res,
                              !.primary = out,
                              !.error = out.err,
                              !.log = @ \o out.reqs]
          /\ arweaveNet' = IF res.net = "http" /\ res.status = 200
                           THEN Append(arweaveNet, toBuffer(dp.content))
                           ELSE arweaveNet
  /\ UNCHANGED <<ipfsNet, withPostgres, tableExists, rows, now, last>>

\* step 3, mirror: IpfsStore.put with the resolved options
DualPinMirror ==
  /\ dp.pc = "primaryStored"
  /\ \E res \in IpfsPostResponses(toBuffer(dp.content)) :
       LET out == IpfsPut(dp.content, AdapterOptions(dp.integrityHash), res)
       IN /\ dp' = [dp EXCEPT !.pc = IF out.status = "ok" THEN "mirrorStored"
                                      ELSE "failed",
                              !.mirrorRes = res,
                              !.mirror = out,
                              !.error = out.err,
                              !.log = @ \o out.reqs]
          /\ ipfsNet' = IF res.net = "http" /\ res.status = 200
                        THEN ipfsNet \cup {toBuffer(dp.content)} ELSE ipfsNet
  /\ UNCHANGED <<arweaveNet, withPostgres, tableExists, rows, now, last>>

\* steps 4 and 5: the Result, the audit row, the return
DualPinFinish ==
  /\ dp.pc = "mirrorStored"
  /\ LET result == AssembleResult(dp.primary.val, dp.mirror.val, dp.sha256,
                                  dp.integrityHash)
         added == RepoAdd(rows, tableExists,
                          EvidenceRecord(dp.opts.dealId, dp.opts.party, dp.sha256,
                                         dp.primary.val.cid, dp.mirror.val.cid,
                                         dp.opts.contentType, Undefined),
                          now)
     IN IF ~AuditWanted(withPostgres, dp.opts)
        THEN /\ dp' = [dp EXCEPT !.pc = "done", !.result = result]
             /\ rows' = rows
        ELSE /\ rows' = added.rows
             /\ dp' = IF added.ok
                      THEN [dp EXCEPT !.pc = "done", !.result = result]
                      ELSE [dp EXCEPT !.pc = "failed", !.error = added.err]
  /\ UNCHANGED <<arweaveNet, ipfsNet, withPostgres, tableExists, now, last>>

NextDualPin ==
  \/ StorageLibInit
  \/ DualPinStart
  \/ DualPinPrimary
  \/ DualPinMirror
  \/ DualPinFinish

SpecDualPin == InitDualPin /\ [][NextDualPin]_vars

----------------------------------------------------------------------------
(* Claims about the adapters, checked under Spec *)

HttpStores == {"ArweaveStore", "IpfsStore"}

\* the call that completed last is a call of op
Completed(op) == last.op = op /\ last.out.status # "pending"

NotOk(res) == res.net = "http" /\ ~ResOk(res.status)

\* C2: whenever integrityHash is present and differs from the SHA-256 hex
\* digest of the content, put returns no StoredRef (the part of the claim
\* that does not depend on which error is thrown).  Violated: an empty
\* integrityHash is skipped by the HTTP adapters, and the placeholder stores
\* ignore the options.
C2_MismatchNeverStored ==
  (/\ Completed("put")
   /\ last.opts.integrityHash # Undefined
   /\ last.opts.integrityHash # sha256Hex(last.content))
  => last.out.status = "throw"

\* C7: verify(id, digest(P)) right after a successful put(P) that returned
\* id is true (for the HTTP adapters: when the gateway serves the stored
\* bytes), and verify(id, d) with another d is false and does not throw.
\* Violated: the exported placeholder stores always answer false.
C7_VerifyAfterStore ==
  (/\ Completed("verify")
   /\ last.after # NoPut
   /\ last.cid = last.after.cid)
  => /\ last.out.status = "ok"
     /\ IF last.expected = sha256Hex(last.after.content)
        THEN (last.store \in HttpStores
                => /\ last.res.net = "http"
                   /\ ResOk(last.res.status)
                   /\ last.res.bytes = toBuffer(last.after.content))
             => last.out.val = TRUE
        ELSE last.out.val = FALSE

\* C8: verify never throws; it returns false when the fetch fails and when
\* the digest of the fetched bytes differs from expected, and true only
\* when the fetch succeeded and the digest of the fetched bytes is expected.
C8_VerifyNeverThrows ==
  Completed("verify")
  => /\ last.out.status = "ok"
     /\ last.out.val \in BOOLEAN
     /\ last.store \in HttpStores
        => /\ (last.res.net = "down" \/ NotOk(last.res)) => last.out.val = FALSE
           /\ (last.res.net = "http" /\ ResOk(last.res.status)
               /\ sha256Hex(Bytes(last.res.bytes)) # last.expected)
              => last.out.val = FALSE
     /\ last.out.val = TRUE
        => /\ last.store \in HttpStores
           /\ last.res.net = "http" /\ ResOk(last.res.status)
           /\ sha256Hex(Bytes(last.res.bytes)) = last.expected

\* C8 witness: a verify whose fetch failed returned false, and one whose
\* fetched bytes were tampered with returned false as well
C8_Witness ==
  /\ Completed("verify")
  /\ last.store = "ArweaveStore"
  /\ NotOk(last.res)
  /\ last.out.status = "ok"
  /\ last.out.val = FALSE

C10_TransportErrorTruncated ==
  (/\ (Completed("put") \/ Completed("get"))
   /\ last.store \in HttpStores
   /\ NotOk(last.res))
  => /\ last.out.status = "throw"
     /\ last.out.err = "transport"
     /\ last.out.httpStatus = last.res.status
     /\ last.out.body = clip(safeText(last.res))

----------------------------------------------------------------------------
(* Claims about dualPin, checked under SpecDualPin *)

Returned == dp.pc = "done"
Failed == dp.pc = "failed"

IsPrefix(s, t) == Len(s) <= Len(t) /\ SubSeq(t, 1, Len(s)) = s

\* C1: dualPin(P, {expectedDigest: d}) with d other than digest(P) returns
\* no Stored Reference (the part of the claim that does not depend on which
\* error is thrown).  Violated: with d the empty string neither adapter
\* compares anything, and the call returns both references.
C1_MismatchReturnsNothing ==
  (/\ dp.pc \in {"done", "failed"}
   /\ dp.opts.integrityHash # Undefined
   /\ dp.opts.integrityHash # sha256Hex(dp.content))
  => /\ Failed
     /\ dp.result = NoResult

\* C3: every Result dualPin returns has integrity.matches = true.
\* Violated: the empty expected digest of C1 yields matches = false.
C3_MatchesAlwaysTrue ==
  Returned => dp.result.integrity.matches = TRUE

\* the remote did not accept an upload: no connection, or a status that is
\* not a success
Refused(res) == res.net = "down" \/ NotOk(res)

\* C4: when the store of either adapter fails, the call fails and returns
\* no Result; nothing but the two uploads is ever requested, and a primary
\* upload accepted before the mirror failed is still on the primary network.
C4_FailureAborts ==
  /\ \A i \in 1..Len(dp.log) : dp.log[i].method \in {"sha256", "POST"}
  /\ (dp.pc \in {"primaryStored", "mirrorStored", "done"}
        => ~Refused(dp.primaryRes) /\ dp.primary.status = "ok")
  /\ (dp.pc \in {"mirrorStored", "done"}
        => ~Refused(dp.mirrorRes) /\ dp.mirror.status = "ok")
  /\ (Failed /\ (dp.primary.status = "throw" \/ dp.mirror.status = "throw"))
       => dp.result = NoResult
  /\ (Failed /\ dp.primary.status = "ok" /\ dp.mirror.status = "throw")
       => /\ ArweaveHolds(arweaveNet, dp.primary.val.cid)
          /\ ArweaveObject(arweaveNet, dp.primary.val.cid) = toBuffer(dp.content)

\* C4 witness: the mirror refused the upload after the primary had stored it
C4_Witness ==
  /\ Failed
  /\ dp.primary.status = "ok"
  /\ Refused(dp.mirrorRes)
  /\ dp.result = NoResult
  /\ ArweaveHolds(arweaveNet, dp.primary.val.cid)

MirrorRequested == \E i \in 1..Len(dp.log) : dp.log[i] = Req("POST", "ipfs")
PrimaryRequested == \E i \in 1..Len(dp.log) : dp.log[i] = Req("POST", "arweave")

\* C5: the mirror upload is requested only after the primary store has
\* completed, and never when the primary upload was refused or failed.
C5_PrimaryBeforeMirror ==
  /\ MirrorRequested
       => /\ PrimaryRequested
          /\ dp.primary.status = "ok"
          /\ ~Refused(dp.primaryRes)
          /\ \A i, j \in 1..Len(dp.log) :
               (dp.log[i] = Req("POST", "arweave") /\ dp.log[j] = Req("POST", "ipfs"))
               => i < j
  /\ (PrimaryRequested /\ dp.primary.status = "throw")
       => (Failed /\ ~MirrorRequested)

\* C5 witness: a call whose primary upload was refused ended without a
\* request to the mirror
C5_Witness ==
  /\ Failed
  /\ PrimaryRequested
  /\ NotOk(dp.primaryRes)
  /\ ~MirrorRequested

\* C6: a step of dualPin appends exactly one row when it is the successful
\* return of a call with the audit backend enabled and both dealId and party
\* supplied; every other step appends none (and a call with business
\* metadata and no audit backend still returns); the rows written before
\* stay as they are.
C6_Step ==
  /\ IsPrefix(rows, rows')
  /\ Len(rows') - Len(rows) =
       IF dp.pc = "mirrorStored" /\ dp'.pc = "done"
          /\ withPostgres /\ dp.opts.dealId # Undefined /\ dp.opts.party # Undefined
       THEN 1 ELSE 0
  /\ (dp.pc = "mirrorStored" /\ ~withPostgres) => dp'.pc = "done"

C6_AuditRow == [][C6_Step]_vars

\* C6 witness: a second row was appended by a call that returned
C6_Witness ==
  /\ Returned
  /\ Len(rows) = 2
  /\ rows[2].sha256 = dp.sha256
  /\ rows[2].primary_cid = dp.result.primary.cid

\* C6, second witness state: a call with business metadata returned without
\* an audit backend, and no row was written
C6_NoBackend ==
  /\ Returned
  /\ ~withPostgres
  /\ dp.opts.dealId # Undefined /\ dp.opts.party # Undefined
  /\ rows = << >>

----------------------------------------------------------------------------
(* Further claims about the adapters, checked under Spec *)

C12_SameContentSameId ==
  (/\ Completed("put")
   /\ last.store = "arweaveStore"
   /\ last.after # NoPut
   /\ last.after.content = last.content)
  => last.out.val = last.after.cid

\* C12 witness: a put with an expected digest returned the identifier that
\* an earlier put of the same content had returned
C12_Witness ==
  /\ Completed("put")
  /\ last.store = "arweaveStore"
  /\ last.after # NoPut
  /\ last.after.content = last.content
  /\ last.opts.integrityHash # Undefined
  /\ last.out.status = "ok"
  /\ last.out.val = last.after.cid

----------------------------------------------------------------------------
(* The digest helpers on their own (src/hasher.ts, src/hash.ts): callers   *)
(* hash texts and buffers; last is the call that completed last and        *)
(* last.after an earlier call, with the digest it returned.                *)

\* the bytes of 'A' and of the UTF-8 encoding of 'e-acute'
ByteValues == {65, 195, 169}

SeqsUpTo(S, n) == UNION {[1..k -> S] : k \in 1..n}

HashInputs ==
  {Text(t) : t \in SeqsUpTo(CodePoints, MaxLen)}
    \cup {Bytes(b) : b \in SeqsUpTo(ByteValues, MaxLen)}

HashFunctions == {"sha256Hex", "sha256"}

\* an earlier digest a digest may be compared with: the one computed right
\* before, or the one that call was itself compared with
EarlierDigests ==
  {NoPut}
    \cup (IF last.op \in HashFunctions
          THEN {[cid |-> last.out.val, content |-> last.content], last.after}
          ELSE {})

\* sha256Hex of src/hasher.ts
Sha256HexCall ==
  /\ \E data \in HashInputs, earlier \in EarlierDigests :
       last' = Call("sha256Hex", "hasher", data, NoOpts, Undefined, Undefined,
                    Down, Return(sha256Hex(data), << >>), earlier)
  /\ UNCHANGED <<arweaveNet, ipfsNet, withPostgres, tableExists, rows, now, dp>>

\* sha256 of src/hash.ts
Sha256Call ==
  /\ \E data \in HashInputs, earlier \in EarlierDigests :
       last' = Call("sha256", "hash", data, NoOpts, Undefined, Undefined,
                    Down, Return(sha256(data), << >>), earlier)
  /\ UNCHANGED <<arweaveNet, ipfsNet, withPostgres, tableExists, rows, now, dp>>

NextHash ==
  \/ Sha256HexCall
  \/ Sha256Call

SpecHash == Init /\ [][NextHash]_vars

\* the bytes of a payload: the UTF-8 encoding of a text, a buffer as it is
Utf8Bytes(data) == IF data.kind = "string" THEN Utf8(data.val) ELSE data.val

\* C13: the digest depends only on the bytes of the payload: two payloads
\* with the same bytes (the same payload hashed twice, or a text and the
\* buffer of its UTF-8 bytes) have the same digest, whatever was hashed in
\* between.
C13_DigestOfBytes ==
  (/\ last.op \in HashFunctions
   /\ last.after # NoPut
   /\ Utf8Bytes(last.content) = Utf8Bytes(last.after.content))
  => /\ last.out.status = "ok"
     /\ last.out.val = last.after.cid

\* C13 witness: a text with a two-byte character has the digest computed
\* earlier for the buffer of its UTF-8 bytes
C13_Witness ==
  /\ last.op = "sha256Hex"
  /\ last.content = Text(<<233>>)
  /\ last.after # NoPut
  /\ last.after.content = Bytes(<<195, 169>>)
  /\ last.out.val = last.after.cid

----------------------------------------------------------------------------
(* The evidence repository on its own (src/postgres/metadata.ts): callers  *)
(* migrate, add records, and read them back while the database clock       *)
(* advances.  last is the call that completed last: the record in content, *)
(* the deal id in cid, the limit in expected.                              *)

MinLimit == 1
MaxLimit == 500
DefaultLimit == 50

MathMax(a, b) == IF a >= b THEN a ELSE b
MathMin(a, b) == IF a <= b THEN a ELSE b

\* order by created_at desc (without the tie-break on id)
NewerByTimeOnly(a, b) == a.created_at > b.created_at

\* order by created_at desc, id desc
Newer(a, b) ==
  \/ a.created_at > b.created_at
  \/ a.created_at = b.created_at /\ a.id > b.id

RECURSIVE InsertRow(_, _)
InsertRow(r, sorted) ==
  IF sorted = << >> THEN <<r>>
  ELSE IF Newer(r, Head(sorted)) THEN <<r>> \o sorted
  ELSE <<Head(sorted)>> \o InsertRow(r, Tail(sorted))

\* the rows of table in the order of the query, taken in insertion order
RECURSIVE OrderBy(_)
OrderBy(table) ==
  IF table = << >> THEN << >>
  ELSE InsertRow(table[Len(table)], OrderBy(SubSeq(table, 1, Len(table) - 1)))

\* where deal_id = $1
Where(table, dealId) == SelectSeq(table, LAMBDA r : r.deal_id = dealId)

\* limit $1
Limit(s, n) == SubSeq(s, 1, MathMin(n, Len(s)))

\* new Date(r.created_at).toISOString()
ToISO(t) == <<"iso", t>>

RowOut(r) == [r EXCEPT !.created_at = ToISO(r.created_at)]

MapRows(s) == [i \in 1..Len(s) |-> RowOut(s[i])]

Query(what, lim) == [method |-> what, backend |-> "postgres", limit |-> lim]

\* EvidenceRepo.migrate: create table if not exists
RepoMigrate(exists) == TRUE

\* EvidenceRepo.findByDeal
FindByDeal(table, exists, dealId) ==
  IF ~exists THEN Throw("no table", <<Query("findByDeal", 0)>>)
  ELSE Return(MapRows(OrderBy(Where(table, dealId))), <<Query("findByDeal", 0)>>)

\* a listRecent that only caps the limit
ListRecentNoFloor(table, exists, limit) ==
  LET lim == MathMin(limit, MaxLimit)
  IN IF ~exists \/ lim < 0 THEN Throw("query", <<Query("listRecent", lim)>>)
     ELSE Return(MapRows(Limit(OrderBy(table), lim)), <<Query("listRecent", lim)>>)

\* EvidenceRepo.listRecent
ListRecent(table, exists, limit) ==
  LET lim == MathMax(MinLimit, MathMin(limit, MaxLimit))
  IN IF ~exists THEN Throw("no table", <<Query("listRecent", lim)>>)
     ELSE Return(MapRows(Limit(OrderBy(table), lim)), <<Query("listRecent", lim)>>)

RepoDealIds == {<<"DEAL-001">>, <<"DEAL-002">>}
RepoRoles == {<<"seller">>, <<"intruder">>}
CreatedAts == {Undefined, Date(0)}

RepoRecords ==
  {EvidenceRecord(d, p, sha256Hex(Bytes(<<65>>)), TxId(1), Cid(<<65>>), Undefined, c) :
     d \in RepoDealIds, p \in RepoRoles, c \in CreatedAts}

\* listRecent(), listRecent(n)
Limits ==
  {Undefined} \cup {<<"number", n>> : n \in {-1, 0, 1, 2, MaxLimit, MaxLimit + 1}}
LimitArg(l) == IF l = Undefined THEN DefaultLimit ELSE l[2]

RepoCall(op, rec, dealId, limit, out) ==
  Call(op, "EvidenceRepo", rec, NoOpts, dealId, limit, Down, out, NoPut)

Migrate ==
  /\ tableExists' = RepoMigrate(tableExists)
  /\ last' = RepoCall("migrate", NoContent, Undefined, Undefined, Return(Undefined, << >>))
  /\ UNCHANGED <<arweaveNet, ipfsNet, withPostgres, rows, now, dp>>

Add ==
  /\ Len(rows) < MaxRows
  /\ \E rec \in RepoRecords :
       LET added == RepoAdd(rows, tableExists, rec, now)
       IN /\ rows' = added.rows
          /\ last' = RepoCall("add", rec, Undefined, Undefined,
                              IF added.ok THEN Return(Undefined, << >>)
                              ELSE Throw(added.err, << >>))
  /\ UNCHANGED <<arweaveNet, ipfsNet, withPostgres, tableExists, now, dp>>

FindByDealCall ==
  /\ \E dealId \in RepoDealIds :
       last' = RepoCall("findByDeal", NoContent, dealId, Undefined,
                        FindByDeal(rows, tableExists, dealId))
  /\ UNCHANGED <<arweaveNet, ipfsNet, withPostgres, tableExists, rows, now, dp>>

ListRecentCall ==
  /\ \E limit \in Limits :
       last' = RepoCall("listRecent", NoContent, Undefined, limit,
                        ListRecent(rows, tableExists, LimitArg(limit)))
  /\ UNCHANGED <<arweaveNet, ipfsNet, withPostgres, tableExists, rows, now, dp>>

\* now() moves on
Tick ==
  /\ now < MaxTime
  /\ now' = now + 1
  /\ UNCHANGED <<arweaveNet, ipfsNet, withPostgres, tableExists, rows, last, dp>>

NextRepo ==
  \/ Migrate
  \/ Add
  \/ FindByDealCall
  \/ ListRecentCall
  \/ Tick

SpecRepo == Init /\ [][NextRepo]_vars

----------------------------------------------------------------------------
(* Claims about the evidence repository, checked under SpecRepo *)

\* a step that is a call of add
AddStep == last'.op = "add" /\ (last' # last \/ rows' # rows)

\* C14: an add whose party is outside {buyer, seller, system} fails and
\* leaves the rows as they were; an add whose party is inside the set, on
\* the migrated table, succeeds and appends exactly one row, the record's,
\* after the rows that were there.
C14_Step ==
  AddStep
  => IF last'.content.party \notin {<<"buyer">>, <<"seller">>, <<"system">>}
     THEN /\ last'.out.status = "throw"
          /\ rows' = rows
     ELSE tableExists
          => /\ last'.out.status = "ok"
             /\ Len(rows') = Len(rows) + 1
             /\ IsPrefix(rows, rows')
             /\ rows'[Len(rows')].deal_id = last'.content.dealId
             /\ rows'[Len(rows')].party = last'.content.party

C14_RoleValidated == [][C14_Step]_vars

\* C14 witness: an add with a role outside the set failed on a table that
\* holds rows; only rows with a role of the set are stored
C14_Witness ==
  /\ last.op = "add"
  /\ last.content.party = <<"intruder">>
  /\ last.out.status = "throw"
  /\ last.out.err = "validation"
  /\ Len(rows) = 2
  /\ \A i \in 1..Len(rows) : rows[i].party = <<"seller">>

\* the positions of the rows of the table that belong to dealId
RowsOf(dealId) == {i \in 1..Len(rows) : rows[i].deal_id = dealId}

\* res lists newest first: by descending creation time, and among rows of
\* the same creation time the row inserted later first
NewestFirst(res) ==
  \A j, k \in 1..Len(res) :
    j < k => \/ res[j].created_at[2] > res[k].created_at[2]
             \/ /\ res[j].created_at[2] = res[k].created_at[2]
                /\ res[j].id > res[k].id

\* C15: on the migrated table findByDeal(id) returns every row whose deal id
\* is id, once, and no other row, newest first by creation time, rows of the
\* same creation time in the reverse of their insertion order.
C15_FindByDeal ==
  (last.op = "findByDeal" /\ tableExists)
  => /\ last.out.status = "ok"
     /\ Len(last.out.val) = Cardinality(RowsOf(last.cid))
     /\ \A i \in RowsOf(last.cid) :
          \E j \in 1..Len(last.out.val) : last.out.val[j] = RowOut(rows[i])
     /\ \A j \in 1..Len(last.out.val) :
          \E i \in RowsOf(last.cid) : last.out.val[j] = RowOut(rows[i])
     /\ NewestFirst(last.out.val)

\* C15 witness: the deal has three rows, two of the same creation time and
\* one inserted last with an earlier creation time
C15_Witness ==
  /\ last.op = "findByDeal"
  /\ last.out.status = "ok"
  /\ Len(rows) = 3
  /\ rows[1].created_at = 1 /\ rows[2].created_at = 1 /\ rows[3].created_at = 0
  /\ Len(last.out.val) = 3
  /\ last.out.val[1].id = 2 /\ last.out.val[2].id = 1 /\ last.out.val[3].id = 3

\* min(max(limit, 1), 500), limit being 50 when none is given
Clamped(limit) ==
  LET n == IF limit = Undefined THEN 50 ELSE limit[2]
  IN IF n < 1 THEN 1 ELSE IF n > 500 THEN 500 ELSE n

\* C16: on the migrated table listRecent(limit) asks for
\* min(max(limit, 1), 500) rows, never more than 500, and returns that many
\* of the newest rows, or all rows when fewer exist, newest first; for a
\* limit of 0 or below it does not fail and returns one row when the table
\* is not empty.
C16_ListRecent ==
  (last.op = "listRecent" /\ tableExists)
  => LET res == last.out.val
         lim == last.out.reqs[1].limit
     IN /\ last.out.status = "ok"
        /\ lim = Clamped(last.expected)
        /\ lim <= 500
        /\ Len(res) = IF Len(rows) < lim THEN Len(rows) ELSE lim
        /\ NewestFirst(res)
        /\ \A j \in 1..Len(res) : \E i \in 1..Len(rows) : res[j] = RowOut(rows[i])
        /\ \A i \in 1..Len(rows) :
             (\A j \in 1..Len(res) : res[j] # RowOut(rows[i]))
             => \A j \in 1..Len(res) :
                  \/ res[j].created_at[2] > rows[i].created_at
                  \/ /\ res[j].created_at[2] = rows[i].created_at
                     /\ res[j].id > rows[i].id
        /\ (last.expected # Undefined /\ last.expected[2] <= 0 /\ rows # << >>)
             => Len(res) = 1

\* C16 witness: listRecent(0) on a table of three rows returned the one row
\* with the newest creation time, which is not the row inserted last
C16_Witness ==
  /\ last.op = "listRecent"
  /\ last.expected = <<"number", 0>>
  /\ last.out.status = "ok"
  /\ Len(rows) = 3
  /\ rows[3].created_at = 0
  /\ Len(last.out.val) = 1
  /\ last.out.val[1].id = 2

\* C16, second witness state: a limit above the cap asked for 500 rows
C16_Capped ==
  /\ last.op = "listRecent"
  /\ last.expected = <<"number", 501>>
  /\ last.out.reqs[1].limit = 500
  /\ Len(last.out.val) = 3

----------------------------------------------------------------------------
(* Further claims about dualPin, checked under SpecDualPin *)

\* the primary answered with an identifier put can use
UsableTx(res) == ~Refused(res) /\ Trim(res.text) # << >>

\* the mirror answered with an identifier put can use
UsableCid(res) ==
  /\ ~Refused(res)
  /\ NonEmptyLines(res.text) # << >>
  /\ LET lines == NonEmptyLines(res.text)
     IN lines[Len(lines)].t # "garbage" /\ CidOf(lines[Len(lines)]) # << >>

\* the call failed in its last step, on the audit row
AuditFailed ==
  /\ AuditWanted(withPostgres, dp.opts)
  /\ dp.primary.status = "ok" /\ dp.mirror.status = "ok"
  /\ dp.error \in {"no table", "validation"}

Remote(e) == e.backend # "local"

----------------------------------------------------------------------------
(* The order of upload and comparison in put, checked under Spec *)

\* the backend of store holds the bytes of content
Written(store, content) ==
  IF store = "ArweaveStore"
  THEN \E i \in 1..Len(arweaveNet) : arweaveNet[i] = toBuffer(content)
  ELSE toBuffer(content) \in ipfsNet

BackendOf(store) == IF store = "ArweaveStore" THEN "arweave" ELSE "ipfs"

\* C19: put of either adapter sends the upload and reads an accepted
\* response before it compares digests: a put that fails on integrity has
\* made exactly one remote request, the upload, before the comparison and
\* none after it, and the payload is on that backend.
C19_UploadBeforeCompare ==
  (Completed("put") /\ last.store \in HttpStores)
  => /\ last.out.err = "integrity"
        => /\ last.res.net = "http" /\ ResOk(last.res.status)
           /\ last.out.reqs = <<Req("POST", BackendOf(last.store)), Step("sha256")>>
           /\ Written(last.store, last.content)
     /\ \A i \in 1..Len(last.out.reqs) :
          last.out.reqs[i] = Step("sha256")
          => /\ i > 1
             /\ last.out.reqs[1] = Req("POST", BackendOf(last.store))
             /\ \A k \in (i + 1)..Len(last.out.reqs) : ~Remote(last.out.reqs[k])

\* C19 witness: a put on the primary failed on integrity and its payload is
\* on the primary network
C19_Witness ==
  /\ Completed("put")
  /\ last.store = "ArweaveStore"
  /\ last.out.err = "integrity"
  /\ Written("ArweaveStore", last.content)
  /\ Len(arweaveNet) = 1

====
